---- MODULE Spec2Model ----
(***************************************************************************)
(* Model of src/benchmark/run_benchmark.py: test_contract (one evaluation  *)
(* of a model's translation of one contract by the external `sui move      *)
(* test` tool) and the evaluation loop and analysis steps of main; and of   *)
(* src/benchmark_pipeline: TranslationAPIClient.translate with its retries *)
(* and BenchmarkRunner's run_all_benchmarks and save_results.              *)
(*                                                                         *)
(* Scores are kept in hundredths of a point (4000 is 40.00), the           *)
(* resolution round(..., 2) leaves them with.  The tool's output text is a *)
(* sequence of tokens: the pieces of text the three searches of            *)
(* test_contract (re.search, str.count, re.findall) can tell apart.        *)
(***************************************************************************)
EXTENDS Integers, Sequences, FiniteSets, TLC

VARIABLES
    pc,             \* position of main: "loop", "stats", "errors", "save", "report", "done", "crashed"
                    \* (or "call" / "returned" for a single call of test_contract;
                    \* "run_all", "load", "translate", "translated", "finished", "saved"
                    \* for the benchmark pipeline)
    mi,             \* index in MODELS of the model of the current iteration
    ci,             \* index in CONTRACTS of the contract of the current iteration
    env,            \* what the last call of test_contract met: directory, tool run, set order
    result,         \* the value the last call of test_contract returned
    results,        \* main's list `results`
    tool_calls,     \* the (model, contract) pairs subprocess.run was called for, in order
    stats_analysis, \* main's `stats_analysis`
    error_analysis, \* main's `error_analysis`
    document,       \* what main hands to json.dump
    summary,        \* the per-model rows of the report's summary table
    counts,         \* the (successes, trials) a confidence interval is asked for
    interval,       \* the interval perform_statistical_analysis keeps for them
    retry_count,    \* translate's `retry_count` in the call that is running
    exchanges,      \* what the requests of the running translate call met, in order
    sleeps,         \* the seconds translate slept, in order
    api_result,     \* the value translate returned
    connected,      \* the value test_connection returned
    idx,            \* index in TEST_CASES of the case run_all_benchmarks is at
    cases,          \* what load_test_case returned for the cases so far, in order
    translated,     \* the cases translate was called for, in order
    self_results,   \* BenchmarkRunner's `self.results`
    saved           \* what save_results handed to json.dump

\* the variables of the benchmark pipeline (src/benchmark_pipeline)
pipeline_vars ==
    <<retry_count, exchanges, sleeps, api_result, connected, idx, cases,
      translated, self_results, saved>>

\* the variables of run_benchmark.py other than pc
benchmark_vars ==
    <<mi, ci, env, result, results, tool_calls, stats_analysis,
      error_analysis, document, summary, counts, interval>>

vars == <<pc, benchmark_vars, pipeline_vars>>

\* a BenchmarkRunner and its client right after construction
PipelineIdle ==
    /\ retry_count = 0
    /\ exchanges = <<>>
    /\ sleeps = <<>>
    /\ api_result = <<>>
    /\ connected = <<>>
    /\ idx = 1
    /\ cases = <<>>
    /\ translated = <<>>
    /\ self_results = <<>>
    /\ saved = <<>>

\* run_benchmark.py before main ran
BenchmarkIdle ==
    /\ mi = 1
    /\ ci = 1
    /\ env = <<>>
    /\ result = <<>>
    /\ results = <<>>
    /\ tool_calls = <<>>
    /\ stats_analysis = <<>>
    /\ error_analysis = <<>>
    /\ document = <<>>
    /\ summary = <<>>
    /\ counts = <<>>
    /\ interval = <<>>

-----------------------------------------------------------------------------
(* Bounds of the model *)

NumModels == 2      \* how many of the configured models take part
NumContracts == 2   \* how many of the configured contracts take part
MaxCount == 13      \* largest test count a summary line of the tool reports
MaxWarnings == 8    \* most occurrences of "warning" in one tool output
MaxErrTokens == 2   \* most error-like tokens in one tool output
MaxFailures == 2    \* most evaluations of one run of main that end in a failure mode

-----------------------------------------------------------------------------
(* Configuration *)

ConfiguredModels ==
    <<"solmover", "gemini-2.5", "qwen3-coder", "gemini-3-pro-preview",
      "gpt-5.2-pro", "claude-4.5-sonnet">>

ConfiguredContracts ==
    <<"0_hello_world", "1_tipjar", "2_guestbook", "3_todo_list",
      "4_simple_coin", "5_counter", "6_weather_oracle">>

MODELS == SubSeq(ConfiguredModels, 1, NumModels)

CONTRACTS == SubSeq(ConfiguredContracts, 1, NumContracts)

EXPECTED_TESTS ==
    ("0_hello_world" :> 11) @@ ("1_tipjar" :> 12) @@ ("2_guestbook" :> 12) @@
    ("3_todo_list" :> 14) @@ ("4_simple_coin" :> 12) @@ ("5_counter" :> 14) @@
    ("6_weather_oracle" :> 13)

CompilePoints == 40     \* compile_score of an artifact that compiles
TestPoints == 50        \* weight of the test score
QualityClean == 10      \* quality_score with no warning
QualityFew == 7         \* quality_score with a few warnings
QualityMany == 3        \* quality_score with many warnings
FewWarnings == 5        \* largest warning count that still counts as a few
TopErrors == 5          \* error codes kept per result
TopErrorTypes == 10     \* error types kept by analyze_errors
ShownErrors == 5        \* error types the charts and the report show
Hundredths == 100       \* round(x, 2) keeps hundredths

-----------------------------------------------------------------------------
(* Sequences *)

Range(s) == {s[k] : k \in 1..Len(s)}

Min(a, b) == IF a <= b THEN a ELSE b

Abs(x) == IF x < 0 THEN -x ELSE x

RECURSIVE GCD(_, _)
GCD(a, b) == IF b = 0 THEN a ELSE GCD(b, a % b)

Max(S) == CHOOSE x \in S : \A y \in S : y <= x

SeqsUpTo(S, n) == UNION {[1..k -> S] : k \in 0..n}

RECURSIVE Repeat(_, _)
Repeat(x, n) == IF n = 0 THEN <<>> ELSE <<x>> \o Repeat(x, n - 1)

\* Every order in which the elements of the finite set S can be enumerated.
Orders(S) == {s \in [1..Cardinality(S) -> S] : Range(s) = S}

\* s[:n]
Head_n(s, n) == SubSeq(s, 1, Min(n, Len(s)))

-----------------------------------------------------------------------------
(* The tool's output text *)

\* "Test result: <word>. Total tests: <n>; passed: <p>; failed: <f>"
SummaryLine(word, n, p, f) ==
    [kind |-> "summary", word |-> word, total |-> n, passed |-> p, failed |-> f]

\* any other piece of text
Word(w) == [kind |-> "word", word |-> w, total |-> 0, passed |-> 0, failed |-> 0]

StatusWords == {"OK", "FAILED"}

WarningWords == {"warning", "Warning", "WARNING"}

\* tokens the pattern error\[E\d+\] matches: codes of ERROR_DESCRIPTIONS and
\* one code it does not list
ErrorCodes ==
    {"error[E01002]", "error[E01003]", "error[E02001]", "error[E03001]",
     "error[E03002]", "error[E03003]", "error[E03004]", "error[E04007]",
     "error[E04010]", "error[E05001]", "error[E07002]", "error[E99999]"}

\* the codes the short outputs are built from
FrequentErrorCodes == {"error[E03003]", "error[E03002]", "error[E05001]"}

\* an output that reports more distinct codes than a result keeps, one twice
ManyErrors ==
    <<"error[E03003]", "error[E01002]", "error[E03003]", "error[E05001]",
      "error[E04007]", "error[E03002]", "error[E02001]">>

\* tokens that hold "error[E" or look like a code without matching the pattern
NearErrorCodes == {"error[E]", "Error[E03003]"}

SummaryParts ==
    {<<>>} \cup
    {<<SummaryLine(w, n, p, 0)>> :
        w \in StatusWords, p \in 0..MaxCount, n \in {0, MaxCount}}

WarningParts ==
    {Repeat(Word("warning"), k) \o Repeat(Word(w), j) :
        k \in 0..MaxWarnings, j \in 0..1, w \in WarningWords \ {"warning"}}

ErrorParts ==
    {[k \in DOMAIN s |-> Word(s[k])] :
        s \in SeqsUpTo(FrequentErrorCodes \cup NearErrorCodes, MaxErrTokens)
               \cup {ManyErrors}}

\* stdout + stderr of a completed run
ToolOutputs ==
    {s \o w : s \in SummaryParts, w \in WarningParts} \cup
    {e \o w : e \in ErrorParts, w \in {<<>>, <<Word("warning")>>}}

-----------------------------------------------------------------------------
(* What one call of subprocess.run can end in *)

Completed(rc, out) ==
    [kind |-> "completed", returncode |-> rc, output |-> out, message |-> ""]

TimeoutExpired ==
    [kind |-> "timeout", returncode |-> 0, output |-> <<>>, message |-> ""]

Raised(msg) ==
    [kind |-> "exception", returncode |-> 0, output |-> <<>>, message |-> msg]

\* the tool was not run at all
NoRun == [kind |-> "none", returncode |-> 0, output |-> <<>>, message |-> ""]

ReturnCodes == {0, 1}

\* str(e) of exceptions subprocess.run raises
ExceptionMessages ==
    {"[Errno 2] No such file or directory: 'sui'", "Test timeout (>60s)", ""}

ToolRuns ==
    {Completed(rc, out) : rc \in ReturnCodes, out \in ToolOutputs}
    \cup {TimeoutExpired}
    \cup {Raised(msg) : msg \in ExceptionMessages}

-----------------------------------------------------------------------------
(* test_contract *)

\* A text built by an f-string is the sequence of its pieces.
output_dir(model_name, contract_name) ==
    <<"/Users/vargaelod/shinso/model/benchmark", "/", "output_", model_name,
      "/", contract_name>>

DirectoryNotFound(model_name, contract_name) ==
    <<"Directory not found: ">> \o output_dir(model_name, contract_name)

TestTimeout == <<"Test timeout (>60s)">>

ErrorMarker(msg) == <<"Error: ", msg>>

new_result(model_name, contract_name) ==
    [model |-> model_name,
     contract |-> contract_name,
     compiles |-> FALSE,
     tests_passed |-> 0,
     tests_total |-> 0,
     tests_expected |-> EXPECTED_TESTS[contract_name],
     warnings |-> 0,
     errors |-> <<>>,
     compile_score |-> 0,
     test_score |-> 0,
     quality_score |-> 0,
     total_score |-> 0]

\* re.search(r"Test result: OK\. Total tests: (\d+); passed: (\d+); failed: (\d+)", output):
\* the first matching line, as a sequence of length 0 (no match) or 1.
test_match(output) ==
    LET hits == {k \in DOMAIN output :
                    output[k].kind = "summary" /\ output[k].word = "OK"}
    IN  IF hits = {} THEN <<>>
        ELSE <<output[CHOOSE k \in hits : \A j \in hits : k <= j]>>

\* output.count("warning")
count_warning(output) ==
    Cardinality({k \in DOMAIN output :
                    output[k].kind = "word" /\ output[k].word = "warning"})

\* "error[E" in output
has_error_prefix(output) ==
    \E k \in DOMAIN output :
        output[k].kind = "word" /\ output[k].word \in ErrorCodes \cup {"error[E]"}

\* re.findall(r"error\[E\d+\]", output)
error_codes(output) ==
    LET IsCode(t) == t.kind = "word" /\ t.word \in ErrorCodes
        hits == SelectSeq(output, IsCode)
    IN  [k \in DOMAIN hits |-> <<hits[k].word>>]

\* The orders list(set(error_codes)) can come in: the iteration order of a set
\* of strings is not fixed by the program.
set_orders(output) == Orders(Range(error_codes(output)))

\* round2 that cuts the digits after the second decimal off
round2_truncated(num, den) == (num * Hundredths) \div den

\* round(num / den, 2), in hundredths: Python rounds halves to even.  With the
\* expected counts of EXPECTED_TESTS no quotient lies on a half, so the floating
\* point quotient rounds as the exact one does.
round2(num, den) ==
    LET n == num * Hundredths
        q == n \div den
        r == n % den
    IN  IF 2 * r < den THEN q
        ELSE IF 2 * r > den THEN q + 1
        ELSE IF q % 2 = 0 THEN q ELSE q + 1

\* the branch of a zero return code
parse_success(r, output) ==
    LET r1 == [r EXCEPT !.compiles = TRUE,
                        !.compile_score = CompilePoints * Hundredths]
        m == test_match(output)
        r2 == IF m # <<>>
              THEN [r1 EXCEPT !.tests_total = m[1].total,
                              !.tests_passed = m[1].passed]
              ELSE r1
    IN  [r2 EXCEPT !.warnings = count_warning(output)]

\* parse_failure that reads the summary line as the success branch does
parse_failure_reading_tests(r, output, order) ==
    LET r1 == [r EXCEPT !.compiles = FALSE, !.compile_score = 0]
        m == test_match(output)
        r2 == IF m # <<>>
              THEN [r1 EXCEPT !.tests_total = m[1].total,
                              !.tests_passed = m[1].passed]
              ELSE r1
    IN  IF has_error_prefix(output)
        THEN [r2 EXCEPT !.errors = Head_n(order, TopErrors)]
        ELSE r2

\* the branch of a nonzero return code
parse_failure(r, output, order) ==
    LET r1 == [r EXCEPT !.compiles = FALSE, !.compile_score = 0]
    IN  IF has_error_prefix(output)
        THEN [r1 EXCEPT !.errors = Head_n(order, TopErrors)]
        ELSE r1

test_score(r) ==
    IF r.tests_expected > 0
    THEN round2(r.tests_passed * TestPoints, r.tests_expected)
    ELSE r.test_score

\* quality_score with the middle tier ending one warning early
quality_score_strict(r) ==
    IF r.warnings = 0 THEN QualityClean * Hundredths
    ELSE IF r.warnings < FewWarnings THEN QualityFew * Hundredths
    ELSE QualityMany * Hundredths

quality_score(r) ==
    IF r.warnings = 0 THEN QualityClean * Hundredths
    ELSE IF r.warnings <= FewWarnings THEN QualityFew * Hundredths
    ELSE QualityMany * Hundredths

\* total_score that leaves the quality score out
total_score_without_quality(r) == r.compile_score + r.test_score

\* round(compile_score + test_score + quality_score, 2): a sum of hundredths
total_score(r) == r.compile_score + r.test_score + r.quality_score

\* the scoring that follows either branch
score(r) ==
    LET r1 == [r EXCEPT !.test_score = test_score(r)]
        r2 == [r1 EXCEPT !.quality_score = quality_score(r1)]
    IN  [r2 EXCEPT !.total_score = total_score(r2)]

\* try_body that counts the warnings of the output on both branches
try_body_counting_warnings(r, run, order) ==
    IF run.returncode = 0
    THEN score(parse_success(r, run.output))
    ELSE score([parse_failure(r, run.output, order)
                    EXCEPT !.warnings = count_warning(run.output)])

\* the body of the try statement, for a run that neither timed out nor raised
try_body(r, run, order) ==
    IF run.returncode = 0
    THEN score(parse_success(r, run.output))
    ELSE score(parse_failure(r, run.output, order))

\* does the call reach subprocess.run
runs_tool(exists) == exists

\* if not output_dir.exists(): the marker, and the result as it was built
not_found(r, model_name, contract_name) ==
    [r EXCEPT !.errors = Append(@, DirectoryNotFound(model_name, contract_name))]

\* on_timeout that records the timeout as the generic handler would
on_timeout_generic(r) == [r EXCEPT !.errors = Append(@, ErrorMarker("timed out"))]

\* except subprocess.TimeoutExpired
on_timeout(r) == [r EXCEPT !.errors = Append(@, TestTimeout)]

\* except Exception as e
on_exception(r, msg) == [r EXCEPT !.errors = Append(@, ErrorMarker(msg))]

\* test_contract that records the missing directory and goes on to run the tool
test_contract_without_return(model_name, contract_name, exists, run, order) ==
    LET r0 == new_result(model_name, contract_name)
        r == IF ~exists THEN not_found(r0, model_name, contract_name) ELSE r0
    IN  CASE run.kind = "timeout" -> on_timeout(r)
          [] run.kind = "exception" -> on_exception(r, run.message)
          [] OTHER -> try_body(r, run, order)

\* The value test_contract returns when the directory exists or not, the tool
\* run ends as `run`, and the set of error codes is enumerated as `order`.
test_contract(model_name, contract_name, exists, run, order) ==
    LET r == new_result(model_name, contract_name)
    IN  IF ~exists
        THEN not_found(r, model_name, contract_name)
        ELSE CASE run.kind = "timeout" -> on_timeout(r)
               [] run.kind = "exception" -> on_exception(r, run.message)
               [] OTHER -> try_body(r, run, order)

-----------------------------------------------------------------------------
(* The environment of one call *)

Env(exists, run, order) == [exists |-> exists, run |-> run, order |-> order]

\* The environments a call can meet when the tool's runs are drawn from `runs`.
\* The set of error codes is built, and so enumerated, only after a nonzero
\* return code.
Envs(runs) ==
    {Env(FALSE, NoRun, <<>>)} \cup
    UNION {{Env(TRUE, run, order) :
                order \in IF run.kind = "completed" /\ run.returncode # 0
                          THEN set_orders(run.output) ELSE {<<>>}} :
           run \in runs}

Call(model_name, contract_name, e) ==
    test_contract(model_name, contract_name, e.exists, e.run, e.order)

\* invocations that runs the tool a second time when the first run failed
invocations_retrying(e) ==
    IF ~runs_tool(e.exists) THEN 0
    ELSE IF e.run.kind = "completed" /\ e.run.returncode = 0 THEN 1 ELSE 2

\* How often the call reaches subprocess.run(["sui", "move", "test"], ...):
\* the try statement holds the one call, and no handler calls it again.
invocations(e) == IF runs_tool(e.exists) THEN 1 ELSE 0

-----------------------------------------------------------------------------
(* perform_statistical_analysis *)

\* The quotient n / d, kept as the pair of its terms.
Frac(n, d) == <<n, d>>

RECURSIVE SumSeq(_)
SumSeq(s) == IF s = <<>> THEN 0 ELSE Head(s) + SumSeq(Tail(s))

\* [r for r in results if r["model"] == model]
model_results(rs, model) == SelectSeq(rs, LAMBDA r : r.model = model)

model_data(rs) ==
    [model \in Range(MODELS) |->
        LET mr == model_results(rs, model)
            passed == SumSeq([k \in DOMAIN mr |-> mr[k].tests_passed])
            total == SumSeq([k \in DOMAIN mr |-> mr[k].tests_expected])
        IN  [passed |-> passed,
             failed |-> total - passed,
             total |-> total,
             rate |-> IF total > 0 THEN Frac(passed, total) ELSE Frac(0, 1)]]

\* chi2_contingency and fisher_exact raise ValueError on a table with a negative
\* count, chi2_contingency also on one with a zero expected frequency (a row or
\* a column that sums to zero).
\* table_accepted that lets a row of zeros through
table_accepted_with_empty_rows(md) ==
    /\ \A m \in Range(MODELS) : md[m].passed >= 0 /\ md[m].failed >= 0
    /\ \E m \in Range(MODELS) : md[m].passed > 0
    /\ \E m \in Range(MODELS) : md[m].failed > 0

\* chi2_contingency(contingency_table) returns: it raises ValueError for a
\* negative count and for an expected frequency of zero, which a table has when
\* a row or a column sums to zero.
table_accepted(md) ==
    /\ \A m \in Range(MODELS) : md[m].passed >= 0 /\ md[m].failed >= 0
    /\ \A m \in Range(MODELS) : md[m].passed + md[m].failed > 0
    /\ \E m \in Range(MODELS) : md[m].passed > 0
    /\ \E m \in Range(MODELS) : md[m].failed > 0

\* model_pairs that takes every model as the second one, the earlier ones too
RECURSIVE model_pairs_ordered(_, _)
model_pairs_ordered(i, j) ==
    IF i > Len(MODELS) THEN <<>>
    ELSE IF j > Len(MODELS) THEN model_pairs_ordered(i + 1, 1)
    ELSE (IF i # j THEN <<(<<MODELS[i], MODELS[j]>>)>> ELSE <<>>)
         \o model_pairs_ordered(i, j + 1)

\* for i, model1 in enumerate(models): for model2 in models[i+1:]
RECURSIVE model_pairs(_, _)
model_pairs(i, j) ==
    IF i > Len(MODELS) THEN <<>>
    ELSE IF j > Len(MODELS) THEN model_pairs(i + 1, i + 2)
    ELSE <<(<<MODELS[i], MODELS[j]>>)>> \o model_pairs(i, j + 1)

\* (rate1 - rate2) * 100
rate_diff(r1, r2) == Frac((r1[1] * r2[2] - r2[1] * r1[2]) * 100, r1[2] * r2[2])

\* table = np.array([[passed1, failed1], [passed2, failed2]])
pair_table(md, model1, model2) ==
    <<(<<md[model1].passed, md[model1].failed>>),
      (<<md[model2].passed, md[model2].failed>>)>>

\* The p-value of fisher_exact(table) is kept as the table it is computed of.
pairwise(md) ==
    LET ps == model_pairs(1, 2)
    IN  [k \in DOMAIN ps |->
            [model1 |-> ps[k][1],
             model2 |-> ps[k][2],
             diff |-> rate_diff(md[ps[k][1]].rate, md[ps[k][2]].rate),
             p_value |-> [fisher_exact |-> pair_table(md, ps[k][1], ps[k][2])]]]

\* the point estimate wilson_score_interval returns, times 100
interval_rate(successes, trials) ==
    IF trials = 0 THEN Frac(0, 1) ELSE Frac(successes * 100, trials)

\* The statistic and the p-values are real numbers the library computes; of
\* the chi-square result the record keeps the degrees of freedom.
\* a fraction in lowest terms
Reduced(f) ==
    LET g == GCD(Abs(f[1]), f[2])
    IN  Frac(f[1] \div g, f[2] \div g)

\* the sum of two fractions in lowest terms, over their least common denominator
Plus(x, y) ==
    LET l == (x[2] \div GCD(x[2], y[2])) * y[2]
    IN  Reduced(Frac(x[1] * (l \div x[2]) + y[1] * (l \div y[2]), l))

RECURSIVE SumOf(_)
SumOf(s) == IF s = <<>> THEN Frac(0, 1) ELSE Plus(Head(s), SumOf(Tail(s)))

\* the correction that takes half a count off every |observed - expected|
yates_fixed_half(d2, total) == d2 - total

\* Yates' correction of chi2_contingency, on twice |observed - expected| * total:
\* observed moves towards expected by min(0.5, |observed - expected|).
yates(d2, total) == d2 - Min(total, d2)

\* One cell of the statistic, (observed - expected)**2 / expected, where
\* expected = row * column / total.  A cell whose expected frequency is zero
\* has no term: chi2_contingency rejects its table.
chi2_term(observed, row, column, total, correction) ==
    LET d2 == 2 * Abs(observed * total - row * column)
        adjusted == IF correction THEN yates(d2, total) ELSE d2
    IN  IF row * column = 0 THEN Frac(0, 1)
        ELSE Reduced(Frac(adjusted * adjusted, 4 * total * row * column))

\* chi2, p_value, dof, expected = chi2_contingency(contingency_table), for a
\* table it accepts: correction=True applies when dof == 1.  The p-value
\* chi2.sf(statistic, dof) is kept as its two arguments; chi2.sf(0, dof) is 1.
chi2_contingency(md) ==
    LET models == MODELS
        passed == SumSeq([k \in DOMAIN models |-> md[models[k]].passed])
        failed == SumSeq([k \in DOMAIN models |-> md[models[k]].failed])
        total == passed + failed
        dof == (Len(models) - 1) * (2 - 1)
        terms == [k \in DOMAIN models |->
                    LET row == md[models[k]].passed + md[models[k]].failed
                    IN  Plus(chi2_term(md[models[k]].passed, row, passed,
                                       total, dof = 1),
                             chi2_term(md[models[k]].failed, row, failed,
                                       total, dof = 1))]
        statistic == SumOf(terms)
    IN  [statistic |-> statistic,
         p_value |-> [chi2_sf |-> statistic, dof |-> dof],
         dof |-> dof]

perform_statistical_analysis(rs) ==
    LET md == model_data(rs)
    IN  [chi_square |-> chi2_contingency(md),
         pairwise |-> pairwise(md),
         confidence_intervals |->
            [m \in Range(MODELS) |->
                [rate |-> interval_rate(md[m].passed, md[m].total)]],
         model_data |-> md]

-----------------------------------------------------------------------------
(* analyze_errors *)

ERROR_DESCRIPTIONS ==
    (<<"error[E01002]">> :> "Unexpected token") @@
    (<<"error[E01003]">> :> "Invalid modifier") @@
    (<<"error[E02001]">> :> "Duplicate declaration, item, or annotation") @@
    (<<"error[E03001]">> :> "Address with no value") @@
    (<<"error[E03002]">> :> "Unbound module") @@
    (<<"error[E03003]">> :> "Unbound module member") @@
    (<<"error[E03004]">> :> "Unbound type") @@
    (<<"error[E04007]">> :> "Incompatible types") @@
    (<<"error[E04010]">> :> "Cannot infer type") @@
    (<<"error[E05001]">> :> "Ability constraint not satisfied") @@
    (<<"error[E07002]">> :> "Mutable ownership violated")

description(error) ==
    IF error \in DOMAIN ERROR_DESCRIPTIONS
    THEN ERROR_DESCRIPTIONS[error] ELSE "Unknown error"

\* occurrences that passes over the entries that are not error codes
RECURSIVE occurrences_of_codes(_)
occurrences_of_codes(rs) ==
    IF rs = <<>> THEN <<>>
    ELSE LET r == Head(rs)
             codes == SelectSeq(r.errors,
                                LAMBDA e : e \in {<<c>> : c \in ErrorCodes})
         IN  [k \in DOMAIN codes |-> [model |-> r.model, error |-> codes[k]]]
             \o occurrences_of_codes(Tail(rs))

\* The (model, error) pairs the two loops of analyze_errors visit, in order.
RECURSIVE occurrences(_)
occurrences(rs) ==
    IF rs = <<>> THEN <<>>
    ELSE LET r == Head(rs)
         IN  [k \in DOMAIN r.errors |-> [model |-> r.model, error |-> r.errors[k]]]
             \o occurrences(Tail(rs))

\* The keys of a dict filled in the order of s: each value once, at its first place.
RECURSIVE keys_in_order(_)
keys_in_order(s) ==
    IF s = <<>> THEN <<>>
    ELSE LET init == keys_in_order(SubSeq(s, 1, Len(s) - 1))
             last == s[Len(s)]
         IN  IF last \in Range(init) THEN init ELSE Append(init, last)

count_of(occ, model, error) ==
    Cardinality({k \in DOMAIN occ : occ[k].model = model /\ occ[k].error = error})

\* total_of that counts the models that met the error, not the occurrences
total_of_models(occ, error) ==
    Cardinality({occ[k].model : k \in {j \in DOMAIN occ : occ[j].error = error}})

total_of(occ, error) == Cardinality({k \in DOMAIN occ : occ[k].error = error})

\* error_by_model: per model of the results, its errors in order of first
\* encounter with their counts
error_by_model(rs) ==
    LET occ == occurrences(rs)
        models == keys_in_order([k \in DOMAIN rs |-> rs[k].model])
    IN  [k \in DOMAIN models |->
            LET mine == SelectSeq(occ, LAMBDA o : o.model = models[k])
                errs == keys_in_order([j \in DOMAIN mine |-> mine[j].error])
            IN  [model |-> models[k],
                 errors |-> [j \in DOMAIN errs |->
                                [error |-> errs[j],
                                 count |-> count_of(occ, models[k], errs[j])]]]]

\* error_by_type, in order of first encounter
error_by_type(rs) ==
    LET occ == occurrences(rs)
        errs == keys_in_order([k \in DOMAIN occ |-> occ[k].error])
    IN  [k \in DOMAIN errs |->
            LET mine == SelectSeq(occ, LAMBDA o : o.error = errs[k])
                models == keys_in_order([j \in DOMAIN mine |-> mine[j].model])
            IN  [error |-> errs[k],
                 total |-> total_of(occ, errs[k]),
                 models |-> [j \in DOMAIN models |->
                                [model |-> models[j],
                                 count |-> count_of(occ, models[j], errs[k])]],
                 description |-> description(errs[k])]]

\* sorted_by_total that puts the later of two equal totals first
RECURSIVE sorted_by_total_latest_first(_)
sorted_by_total_latest_first(s) ==
    IF s = <<>> THEN <<>>
    ELSE LET rest == sorted_by_total_latest_first(Tail(s))
             x == Head(s)
             before == SelectSeq(rest, LAMBDA y : y.total >= x.total)
             after == SelectSeq(rest, LAMBDA y : y.total < x.total)
         IN  before \o <<x>> \o after

\* sorted(items, key=total, reverse=True): stable, so equal totals keep their order
RECURSIVE sorted_by_total(_)
sorted_by_total(s) ==
    IF s = <<>> THEN <<>>
    ELSE LET rest == sorted_by_total(Tail(s))
             x == Head(s)
             before == SelectSeq(rest, LAMBDA y : y.total > x.total)
             after == SelectSeq(rest, LAMBDA y : y.total <= x.total)
         IN  before \o <<x>> \o after

analyze_errors(rs) ==
    [by_model |-> error_by_model(rs),
     by_type |-> Head_n(sorted_by_total(error_by_type(rs)), TopErrorTypes)]

\* top_errors = list(error_analysis["by_type"].keys())[:5]
top_errors(ea) ==
    Head_n([k \in DOMAIN ea.by_type |-> ea.by_type[k].error], ShownErrors)

-----------------------------------------------------------------------------
(* The summary table of the report *)

\* avg_score that leaves the results that did not compile out of the mean
avg_score_of_compiled(mr) ==
    LET cs == SelectSeq(mr, LAMBDA r : r.compiles)
    IN  Frac(SumSeq([j \in DOMAIN cs |-> cs[j].total_score]), Len(cs))

\* sum(r["total_score"] for r in model_results) / len(model_results)
avg_score(mr) == Frac(SumSeq([j \in DOMAIN mr |-> mr[j].total_score]), Len(mr))

\* sum(1 for r in model_results if r["compiles"]) / len(model_results) * 100
compile_rate(mr) ==
    Frac(Len(SelectSeq(mr, LAMBDA r : r.compiles)) * 100, Len(mr))

AddFrac(a, b) == Frac(a[1] * b[2] + b[1] * a[2], a[2] * b[2])

RECURSIVE SumFracs(_)
SumFracs(s) == IF s = <<>> THEN Frac(0, 1) ELSE AddFrac(Head(s), SumFracs(Tail(s)))

\* avg_pass_rate as the mean of the pass ratios of the cases
avg_pass_rate_per_case(mr) ==
    LET sum == SumFracs([j \in DOMAIN mr |->
                            Frac(mr[j].tests_passed * 100, mr[j].tests_expected)])
    IN  Frac(sum[1], sum[2] * Len(mr))

\* (total_passed / total_expected * 100) if total_expected > 0 else 0
avg_pass_rate(mr) ==
    LET total_passed == SumSeq([j \in DOMAIN mr |-> mr[j].tests_passed])
        total_expected == SumSeq([j \in DOMAIN mr |-> mr[j].tests_expected])
    IN  IF total_expected > 0
        THEN Frac(total_passed * 100, total_expected)
        ELSE Frac(0, 1)

summary_rows(rs) ==
    [k \in DOMAIN MODELS |->
        LET mr == model_results(rs, MODELS[k])
        IN  [model |-> MODELS[k],
             avg_score |-> avg_score(mr),
             compile_rate |-> compile_rate(mr),
             total_passed |-> SumSeq([j \in DOMAIN mr |-> mr[j].tests_passed]),
             total_expected |-> SumSeq([j \in DOMAIN mr |-> mr[j].tests_expected]),
             avg_pass_rate |-> avg_pass_rate(mr)]]

-----------------------------------------------------------------------------
(* json.dump and json.load of the results document *)

\* A Python value json.dump is handed or json.load returns.  num is the value of
\* an int, 0 or 1 for a bool, and the hundredths of a float that round(x, 2)
\* made; double holds a float the statistics library computed; items are the
\* elements of a list or, as key/value entries in insertion order, of a dict.
PyValue(type) == [type |-> type, text |-> <<>>, num |-> 0, double |-> <<>>, items |-> <<>>]

PyStr(text) == [PyValue("str") EXCEPT !.text = text]

PyBool(b) == [PyValue("bool") EXCEPT !.num = IF b THEN 1 ELSE 0]

PyInt(n) == [PyValue("int") EXCEPT !.num = n]

PyFloat(hundredths) == [PyValue("float") EXCEPT !.num = hundredths]

PyDouble(x) == [PyValue("float") EXCEPT !.double = <<x>>]

PyList(items) == [PyValue("list") EXCEPT !.items = items]

PyDict(items) == [PyValue("dict") EXCEPT !.items = items]

Entry(key, value) == [key |-> key, value |-> value]

\* d[key] of a dict
Member(d, key) ==
    LET at == {k \in DOMAIN d.items : d.items[k].key = key}
    IN  d.items[Max(at)].value

\* A token of the JSON text: a punctuation mark, a literal, a string between
\* its quotes, or a number as its integer digits and its fraction digits.
Token(lex) == [lex |-> lex, text |-> <<>>, whole |-> 0, frac |-> <<>>, double |-> <<>>]

Quote == "\""

\* the string between double quotes
encode_basestring(text) == <<Quote>> \o text \o <<Quote>>

\* the inverse: the text between the first and the last quote
scanstring(text) == SubSeq(text, 2, Len(text) - 1)

\* float.__repr__ that keeps one digit of the fraction
float_repr_one_digit(o) ==
    [Token("float") EXCEPT !.whole = o.num \div Hundredths,
                           !.frac = <<(o.num % Hundredths) \div 10>>]

\* float.__repr__: the shortest digits that read back as the same float, with
\* at least one digit after the point; for a float of the statistics library
\* these digits stand for the float itself
float_repr(o) ==
    IF o.double # <<>>
    THEN [Token("float") EXCEPT !.double = o.double]
    ELSE LET cents == o.num % Hundredths
         IN  [Token("float") EXCEPT
                !.whole = o.num \div Hundredths,
                !.frac = IF cents % 10 = 0 THEN <<cents \div 10>>
                         ELSE <<cents \div 10, cents % 10>>]

\* float(digits)
parse_float(t) ==
    IF t.double # <<>>
    THEN PyDouble(t.double[1])
    ELSE PyFloat(t.whole * Hundredths
                 + t.frac[1] * 10
                 + (IF Len(t.frac) > 1 THEN t.frac[2] ELSE 0))

RECURSIVE iterencode(_)
RECURSIVE iterencode_list(_, _)
RECURSIVE iterencode_dict(_, _)

\* json.dump(o): the tokens of the text written
iterencode(o) ==
    CASE o.type = "str" -> <<[Token("string") EXCEPT !.text = encode_basestring(o.text)]>>
      [] o.type = "bool" -> <<Token(IF o.num = 1 THEN "true" ELSE "false")>>
      [] o.type = "int" -> <<[Token("int") EXCEPT !.whole = o.num]>>
      [] o.type = "float" -> <<float_repr(o)>>
      [] o.type = "list" ->
            <<Token("[")>> \o iterencode_list(o.items, 1) \o <<Token("]")>>
      [] o.type = "dict" ->
            <<Token("{")>> \o iterencode_dict(o.items, 1) \o <<Token("}")>>

iterencode_list(items, k) ==
    IF k > Len(items) THEN <<>>
    ELSE (IF k > 1 THEN <<Token(",")>> ELSE <<>>)
         \o iterencode(items[k])
         \o iterencode_list(items, k + 1)

iterencode_dict(items, k) ==
    IF k > Len(items) THEN <<>>
    ELSE (IF k > 1 THEN <<Token(",")>> ELSE <<>>)
         \o <<[Token("string") EXCEPT !.text = encode_basestring(items[k].key)],
              Token(":")>>
         \o iterencode(items[k].value)
         \o iterencode_dict(items, k + 1)

RECURSIVE scan_once(_, _)
RECURSIVE JSONArray(_, _, _)
RECURSIVE JSONObject(_, _, _)

\* the value that starts at token pos, and the index of the token after it
scan_once(s, pos) ==
    CASE s[pos].lex = "string" ->
            [value |-> PyStr(scanstring(s[pos].text)), next |-> pos + 1]
      [] s[pos].lex = "true" -> [value |-> PyBool(TRUE), next |-> pos + 1]
      [] s[pos].lex = "false" -> [value |-> PyBool(FALSE), next |-> pos + 1]
      [] s[pos].lex = "int" -> [value |-> PyInt(s[pos].whole), next |-> pos + 1]
      [] s[pos].lex = "float" -> [value |-> parse_float(s[pos]), next |-> pos + 1]
      [] s[pos].lex = "[" -> JSONArray(s, pos + 1, <<>>)
      [] s[pos].lex = "{" -> JSONObject(s, pos + 1, <<>>)

JSONArray(s, pos, values) ==
    IF s[pos].lex = "]" THEN [value |-> PyList(values), next |-> pos + 1]
    ELSE LET start == IF s[pos].lex = "," THEN pos + 1 ELSE pos
             element == scan_once(s, start)
         IN  JSONArray(s, element.next, Append(values, element.value))

\* a key met again replaces the value and keeps the place of the first one
JSONObject(s, pos, pairs) ==
    IF s[pos].lex = "}" THEN [value |-> PyDict(pairs), next |-> pos + 1]
    ELSE LET start == IF s[pos].lex = "," THEN pos + 1 ELSE pos
             key == scanstring(s[start].text)
             member == scan_once(s, start + 2)
             at == {k \in DOMAIN pairs : pairs[k].key = key}
         IN  JSONObject(s, member.next,
                        IF at = {} THEN Append(pairs, Entry(key, member.value))
                        ELSE [pairs EXCEPT ![Max(at)].value = member.value])

\* json.load(f)
json_load(s) == scan_once(s, 1).value

\* a score as test_contract leaves it: the int 0, 40, 10, 7 or 3 it assigned
int_score(hundredths) == PyInt(hundredths \div Hundredths)

\* test_score and total_score are the floats round(x, 2) returns once the
\* scoring ran, and the int 0 of the initial result before
float_score(r, hundredths) ==
    IF r.quality_score > 0 /\ r.tests_expected > 0
    THEN PyFloat(hundredths)
    ELSE int_score(hundredths)

\* the dict test_contract returns
result_dict(r) ==
    PyDict(<<Entry(<<"model">>, PyStr(<<r.model>>)),
             Entry(<<"contract">>, PyStr(<<r.contract>>)),
             Entry(<<"compiles">>, PyBool(r.compiles)),
             Entry(<<"tests_passed">>, PyInt(r.tests_passed)),
             Entry(<<"tests_total">>, PyInt(r.tests_total)),
             Entry(<<"tests_expected">>, PyInt(r.tests_expected)),
             Entry(<<"warnings">>, PyInt(r.warnings)),
             Entry(<<"errors">>,
                   PyList([k \in DOMAIN r.errors |-> PyStr(r.errors[k])])),
             Entry(<<"compile_score">>, int_score(r.compile_score)),
             Entry(<<"test_score">>, float_score(r, r.test_score)),
             Entry(<<"quality_score">>, int_score(r.quality_score)),
             Entry(<<"total_score">>, float_score(r, r.total_score))>>)

\* the three entries of "statistical_analysis"
statistical_analysis_dict(sa) ==
    PyDict(<<Entry(<<"chi_square">>,
                   PyDict(<<Entry(<<"statistic">>, PyDouble(sa.chi_square.statistic)),
                            Entry(<<"p_value">>, PyDouble(sa.chi_square.p_value)),
                            Entry(<<"dof">>, PyInt(sa.chi_square.dof))>>)),
             Entry(<<"confidence_intervals">>,
                   PyDict([k \in DOMAIN MODELS |->
                             Entry(<<MODELS[k]>>,
                                   PyDict(<<Entry(<<"rate">>,
                                     PyDouble(sa.confidence_intervals[MODELS[k]].rate))>>))])),
             Entry(<<"pairwise_comparisons">>,
                   PyList([k \in DOMAIN sa.pairwise |->
                             PyDict(<<Entry(<<"model1">>, PyStr(<<sa.pairwise[k].model1>>)),
                                      Entry(<<"model2">>, PyStr(<<sa.pairwise[k].model2>>)),
                                      Entry(<<"diff">>, PyDouble(sa.pairwise[k].diff)),
                                      Entry(<<"p_value">>,
                                            PyDouble(sa.pairwise[k].p_value))>>)]))>>)

\* error_by_model[model]: the counts keyed by error
error_counts_dict(cs) ==
    PyDict([k \in DOMAIN cs |-> Entry(cs[k].error, PyInt(cs[k].count))])

\* error_by_type[error]["models"]: the counts keyed by model
model_counts_dict(cs) ==
    PyDict([k \in DOMAIN cs |-> Entry(<<cs[k].model>>, PyInt(cs[k].count))])

\* the dict analyze_errors returns
error_analysis_dict(ea) ==
    PyDict(<<Entry(<<"by_model">>,
                   PyDict([k \in DOMAIN ea.by_model |->
                             Entry(<<ea.by_model[k].model>>,
                                   error_counts_dict(ea.by_model[k].errors))])),
             Entry(<<"by_type">>,
                   PyDict([k \in DOMAIN ea.by_type |->
                             Entry(ea.by_type[k].error,
                                   PyDict(<<Entry(<<"total">>, PyInt(ea.by_type[k].total)),
                                            Entry(<<"models">>,
                                                  model_counts_dict(ea.by_type[k].models)),
                                            Entry(<<"description">>,
                                                  PyStr(<<ea.by_type[k].description>>))>>))]))>>)

\* the entries of "benchmark_metadata" that main computes from its tables; the
\* timestamp and the environment are strings read from the clock and the host
benchmark_metadata ==
    PyDict(<<Entry(<<"version">>, PyStr(<<"1.0.0">>)),
             Entry(<<"total_contracts">>, PyInt(Len(CONTRACTS))),
             Entry(<<"total_tests">>,
                   PyInt(SumSeq([k \in DOMAIN ConfiguredContracts |->
                                    EXPECTED_TESTS[ConfiguredContracts[k]]])))>>)

\* the object main hands to json.dump
run_record(rs, sa, ea) ==
    PyDict(<<Entry(<<"benchmark_metadata">>, benchmark_metadata),
             Entry(<<"results">>, PyList([k \in DOMAIN rs |-> result_dict(rs[k])])),
             Entry(<<"statistical_analysis">>, statistical_analysis_dict(sa)),
             Entry(<<"error_analysis">>, error_analysis_dict(ea))>>)

-----------------------------------------------------------------------------
(* main *)

\* The tool runs of a whole run of main, one of each kind: every expected test
\* of the contract passes, the compilation fails, the tool times out, the tool
\* cannot be started.
BatchRuns(contract_name) ==
    {Completed(0, <<SummaryLine("OK", EXPECTED_TESTS[contract_name],
                                EXPECTED_TESTS[contract_name], 0),
                    Word("warning")>>),
     Completed(1, <<Word("error[E03003]"), Word("error[E03003]")>>),
     TimeoutExpired,
     Raised("[Errno 2] No such file or directory: 'sui'")}

\* An evaluation that ends in a failure mode: no directory, no completed run,
\* or a nonzero return code.
IsFailure(e) ==
    ~e.exists \/ e.run.kind # "completed" \/ e.run.returncode # 0

Failures(rs) == Len(SelectSeq(rs, LAMBDA r : ~r.compiles))

BatchEnvs(rs, contract_name) ==
    {e \in Envs(BatchRuns(contract_name)) :
        IsFailure(e) => Failures(rs) < MaxFailures}

Init ==
    /\ pc = "loop"
    /\ mi = 1
    /\ ci = 1
    /\ env = <<>>
    /\ result = <<>>
    /\ results = <<>>
    /\ tool_calls = <<>>
    /\ stats_analysis = <<>>
    /\ error_analysis = <<>>
    /\ document = <<>>
    /\ summary = <<>>
    /\ counts = <<>>
    /\ interval = <<>>
    /\ PipelineIdle

\* append that keeps only the results of artifacts that compile
append_compiled(rs, r) == IF r.compiles THEN Append(rs, r) ELSE rs

\* results.append(result)
append(rs, r) == Append(rs, r)

\* loop_done that is true at the end of every model's contracts
loop_done_per_model(m, c) == c = Len(CONTRACTS)

\* the iteration of the last contract of the last model ends both loops
loop_done(m, c) == m = Len(MODELS) /\ c = Len(CONTRACTS)

\* One iteration of the nested loops of main: result = test_contract(model,
\* contract); results.append(result).
Evaluate ==
    /\ pc = "loop"
    /\ \E e \in BatchEnvs(results, CONTRACTS[ci]) :
        LET r == Call(MODELS[mi], CONTRACTS[ci], e)
        IN  /\ env' = <<e>>
            /\ result' = <<r>>
            /\ results' = append(results, r)
            /\ tool_calls' = tool_calls \o
                    Repeat(<<MODELS[mi], CONTRACTS[ci]>>, invocations(e))
    /\ IF loop_done(mi, ci)
       THEN ci' = ci /\ mi' = mi /\ pc' = "stats"
       ELSE IF ci < Len(CONTRACTS)
            THEN ci' = ci + 1 /\ mi' = mi /\ pc' = pc
            ELSE ci' = 1 /\ mi' = mi + 1 /\ pc' = pc
    /\ UNCHANGED <<stats_analysis, error_analysis, document, summary, counts, interval, pipeline_vars>>

\* stats_analysis = perform_statistical_analysis(results); a ValueError of the
\* tests is not caught and ends main.
Statistics ==
    /\ pc = "stats"
    /\ IF table_accepted(model_data(results))
       THEN /\ stats_analysis' = <<perform_statistical_analysis(results)>>
            /\ pc' = "errors"
       ELSE /\ stats_analysis' = stats_analysis
            /\ pc' = "crashed"
    /\ UNCHANGED <<mi, ci, env, result, results, tool_calls, error_analysis,
                   document, summary, counts, interval, pipeline_vars>>

\* error_analysis = analyze_errors(results)
Errors ==
    /\ pc = "errors"
    /\ error_analysis' = <<analyze_errors(results)>>
    /\ pc' = "save"
    /\ UNCHANGED <<mi, ci, env, result, results, tool_calls, stats_analysis,
                   document, summary, counts, interval, pipeline_vars>>

\* json.dump of the run record
Save ==
    /\ pc = "save"
    /\ document' = <<iterencode(run_record(results, stats_analysis[1],
                                           error_analysis[1]))>>
    /\ pc' = "report"
    /\ UNCHANGED <<mi, ci, env, result, results, tool_calls, stats_analysis,
                   error_analysis, summary, counts, interval, pipeline_vars>>

\* generate_markdown_table(results, stats_analysis, error_analysis)
Report ==
    /\ pc = "report"
    /\ summary' = <<summary_rows(results)>>
    /\ pc' = "done"
    /\ UNCHANGED <<mi, ci, env, result, results, tool_calls, stats_analysis,
                   error_analysis, document, counts, interval, pipeline_vars>>

Next == Evaluate \/ Statistics \/ Errors \/ Save \/ Report

Spec == Init /\ [][Next]_vars

-----------------------------------------------------------------------------
(* One call of test_contract, for any pair of the configuration *)

InitCall ==
    /\ pc = "call"
    /\ mi \in DOMAIN MODELS
    /\ ci \in DOMAIN CONTRACTS
    /\ env = <<>>
    /\ result = <<>>
    /\ results = <<>>
    /\ tool_calls = <<>>
    /\ stats_analysis = <<>>
    /\ error_analysis = <<>>
    /\ document = <<>>
    /\ summary = <<>>
    /\ counts = <<>>
    /\ interval = <<>>
    /\ PipelineIdle

CallTestContract ==
    /\ pc = "call"
    /\ \E e \in Envs(ToolRuns) :
        /\ env' = <<e>>
        /\ result' = <<Call(MODELS[mi], CONTRACTS[ci], e)>>
        /\ tool_calls' = tool_calls \o
                Repeat(<<MODELS[mi], CONTRACTS[ci]>>, invocations(e))
    /\ pc' = "returned"
    /\ UNCHANGED <<mi, ci, results, stats_analysis, error_analysis, document, summary,
                   counts, interval, pipeline_vars>>

NextCall == CallTestContract

SpecCall == InitCall /\ [][NextCall]_vars

-----------------------------------------------------------------------------
(* Properties of one call of test_contract (SpecCall) *)

Returned == pc = "returned"

\* the value returned and the environment the call met
Ret == result[1]
Met == env[1]

ToolCompleted == Returned /\ Met.exists /\ Met.run.kind = "completed"

ZeroScores(r) ==
    /\ r.compile_score = 0
    /\ r.test_score = 0
    /\ r.quality_score = 0
    /\ r.total_score = 0

C2_CompileGate ==
    Returned =>
        /\ ~Ret.compiles => Ret.compile_score = 0 /\ Ret.tests_passed = 0
        /\ Ret.compiles <=> Ret.compile_score = 40 * Hundredths
        /\ Ret.compile_score \in {0, 40 * Hundredths}

\* a nonzero return code with an output whose summary line reports passed tests
C2_Witness ==
    /\ ToolCompleted
    /\ Met.run.returncode # 0
    /\ \E k \in DOMAIN Met.run.output :
          /\ Met.run.output[k].kind = "summary"
          /\ Met.run.output[k].word = "OK"
          /\ Met.run.output[k].passed > 0
    /\ ~Ret.compiles

\* C3: every result has 0 <= tests_passed <= tests_expected, whatever counts
\* the summary line of the tool reports.
C3_PassedWithinExpected ==
    Returned => 0 <= Ret.tests_passed /\ Ret.tests_passed <= Ret.tests_expected

\* C4: every result has 0 <= test_score <= 50 and 0 <= total_score <= 100.
C4_ScoresBounded ==
    Returned =>
        /\ 0 <= Ret.test_score /\ Ret.test_score <= 50 * Hundredths
        /\ 0 <= Ret.total_score /\ Ret.total_score <= 100 * Hundredths

IsRounded(s, p, e) ==
    LET d == s * e - p * 50 * Hundredths
    IN  /\ 2 * d <= e
        /\ -2 * d <= e
        /\ (2 * d = e \/ -2 * d = e) => s % 2 = 0

C7_MissingDirectory ==
    (Returned /\ ~Met.exists) =>
        /\ Ret.errors = <<DirectoryNotFound(MODELS[mi], CONTRACTS[ci])>>
        /\ ~Ret.compiles
        /\ ZeroScores(Ret)
        /\ Ret.tests_passed = 0 /\ Ret.tests_total = 0 /\ Ret.warnings = 0
        /\ tool_calls = <<>>

C7_Witness == Returned /\ ~Met.exists /\ Len(Ret.errors) = 1

\* C8: a timeout gives compiles false, tests_passed 0, the four scores 0 and
\* the marker "Test timeout (>60s)", which neither a nonzero return code nor
\* another exception records; another exception gives the marker "Error: ..."
\* and the four scores 0.
C8_TimeoutAndException ==
    /\ (Returned /\ Met.exists /\ Met.run.kind = "timeout") =>
          /\ Ret.errors = <<TestTimeout>>
          /\ ~Ret.compiles /\ Ret.tests_passed = 0
          /\ ZeroScores(Ret)
    /\ (Returned /\ Met.exists /\ Met.run.kind = "exception") =>
          /\ Ret.errors = <<ErrorMarker(Met.run.message)>>
          /\ TestTimeout \notin Range(Ret.errors)
          /\ ~Ret.compiles /\ Ret.tests_passed = 0
          /\ ZeroScores(Ret)
    /\ (ToolCompleted /\ Met.run.returncode # 0) =>
          TestTimeout \notin Range(Ret.errors)

C8_Witness ==
    Returned /\ Met.exists /\ Met.run.kind = "timeout" /\ Ret.errors = <<TestTimeout>>

-----------------------------------------------------------------------------
(* Properties of a run of main (Spec) *)

NumPairs == Len(MODELS) * Len(CONTRACTS)

\* the k-th (model, contract) pair in model-major order
PairAt(k) ==
    <<MODELS[((k - 1) \div Len(CONTRACTS)) + 1],
      CONTRACTS[((k - 1) % Len(CONTRACTS)) + 1]>>

HasMarker(rs, marker) == \E k \in DOMAIN rs : marker \in Range(rs[k].errors)

\* C9: no failure of an evaluation (missing directory, timeout, exception,
\* compile failure) ends the loop of main early: every iteration appends one
\* result, and after the loop `results` holds exactly one result per (model,
\* contract) pair of the configuration, in model-major order.
C9_OneResultPerPair ==
    /\ pc = "loop" => Len(results) = (mi - 1) * Len(CONTRACTS) + (ci - 1)
    /\ pc # "loop" => Len(results) = NumPairs
    /\ \A k \in DOMAIN results :
          <<results[k].model, results[k].contract>> = PairAt(k)

\* the loop has ended after a timeout, a missing directory and a result that
\* follows them
C9_Witness ==
    /\ pc = "stats"
    /\ HasMarker(results, TestTimeout)
    /\ \E k \in DOMAIN results :
          /\ results[k].errors = <<DirectoryNotFound(results[k].model, results[k].contract)>>
          /\ k < Len(results)
    /\ results[Len(results)].compiles

AnalysisStarted ==
    stats_analysis # <<>> \/ error_analysis # <<>> \/ document # <<>> \/ summary # <<>>

\* C10: the statistical analysis, the error analysis and the summary are
\* computed only once every (model, contract) pair has been evaluated, and
\* from the end of the loop on `results` is never changed.
C10_AnalysisAfterEvaluation ==
    /\ [](AnalysisStarted => (pc # "loop" /\ Len(results) = NumPairs))
    /\ [][pc # "loop" => results' = results]_vars
    /\ [][pc' # "loop" /\ pc = "loop" => Len(results') = NumPairs]_vars

C10_Witness ==
    /\ pc = "done"
    /\ stats_analysis # <<>> /\ error_analysis # <<>> /\ summary # <<>>
    /\ Failures(results) > 0
    /\ Len(results) = NumPairs

-----------------------------------------------------------------------------
(* More properties of a run of main (Spec) *)

Evaluated(k) == <<results[k].model, results[k].contract>>

\* C11: the tool is invoked at most once per (model, contract) evaluation: no
\* pair occurs twice among the invocations, whatever the runs ended in, and
\* only evaluated pairs occur.
C11_AtMostOneInvocation ==
    /\ \A i, j \in DOMAIN tool_calls : i # j => tool_calls[i] # tool_calls[j]
    /\ \A i \in DOMAIN tool_calls :
          \E k \in DOMAIN results : Evaluated(k) = tool_calls[i]
    /\ Len(tool_calls) <= Len(results)

\* the loop has ended after a timeout and a compile failure, each invoked once
C11_Witness ==
    /\ pc = "stats"
    /\ HasMarker(results, TestTimeout)
    /\ HasMarker(results, <<"error[E03003]">>)
    /\ Len(tool_calls) = Len(results)

\* fractions that denote the same number (denominators are positive)
SameFrac(a, b) == a[1] * b[2] = b[1] * a[2]

Reported == pc = "done"

\* the sum of a field over the results of one model
Sum(model, field(_)) ==
    LET mr == model_results(results, model)
    IN  SumSeq([j \in DOMAIN mr |-> field(mr[j])])

Passed(model) == Sum(model, LAMBDA r : r.tests_passed)
Expected(model) == Sum(model, LAMBDA r : r.tests_expected)

\* C15: for every model the pass rate of the summary is the pooled ratio
\* sum(tests_passed) / sum(tests_expected) over the model's results, in percent,
\* and it is the point estimate of the significance analysis: the rate of
\* model_data (a fraction of 1) and the rate of the confidence interval.
C15_PooledPassRate ==
    Reported =>
        \A k \in DOMAIN MODELS :
            LET model == MODELS[k]
                shown == summary[1][k].avg_pass_rate
                rate == stats_analysis[1].model_data[model].rate
            IN  /\ summary[1][k].model = model
                /\ SameFrac(shown, Frac(Passed(model) * 100, Expected(model)))
                /\ SameFrac(shown, Frac(rate[1] * 100, rate[2]))
                /\ SameFrac(shown,
                            stats_analysis[1].confidence_intervals[model].rate)

\* a model passed every test of one case and none of a case of another size,
\* so that the pooled ratio is not the mean of the two ratios
C15_Witness ==
    /\ Reported
    /\ \E i, j \in DOMAIN results :
          /\ results[i].model = results[j].model
          /\ results[i].tests_passed = results[i].tests_expected
          /\ results[j].tests_passed = 0
          /\ results[i].tests_expected # results[j].tests_expected

\* the models that have a result, and the results of one of them
ModelsPresent == {results[k].model : k \in DOMAIN results}
Compiled(model) == Len(SelectSeq(model_results(results, model),
                                 LAMBDA r : r.compiles))

-----------------------------------------------------------------------------
(* More properties of one call of test_contract (SpecCall) *)

Succeeded == ToolCompleted /\ Met.run.returncode = 0

\* the summary lines of the output, whatever their status word
summary_lines(output) == SelectSeq(output, LAMBDA t : t.kind = "summary")

\* C12: on return code 0 the result compiles; if the output holds a summary
\* line "Test result: <WORD>. Total tests: <N>; passed: <P>; failed: <F>", for
\* any status word, tests_passed is P; without such a line tests_passed is 0
\* and the result carries no error.
C12_SummaryLineRead ==
    Succeeded =>
        /\ Ret.compiles
        /\ LET lines == summary_lines(Met.run.output)
           IN  IF lines # <<>>
               THEN Ret.tests_passed = lines[1].passed
               ELSE Ret.tests_passed = 0 /\ Ret.errors = <<>>

\* the occurrences of "warning" in the output, in any letter case
count_warning_any_case(output) ==
    Cardinality({k \in DOMAIN output :
                    output[k].kind = "word" /\ output[k].word \in WarningWords})

\* C13: the warning count of a result of a successful run is the number of
\* occurrences of "warning" in stdout + stderr without regard to letter case:
\* "Warning" and "WARNING" count like "warning".
C13_WarningsAnyCase ==
    Succeeded => Ret.warnings = count_warning_any_case(Met.run.output)

Failed == ToolCompleted /\ Met.run.returncode # 0

\* the entries of a sequence without repetitions, in order of first appearance
RECURSIVE first_appearances(_)
first_appearances(s) ==
    IF s = <<>> THEN <<>>
    ELSE LET front == first_appearances(SubSeq(s, 1, Len(s) - 1))
             last == s[Len(s)]
         IN  IF last \in Range(front) THEN front ELSE Append(front, last)

\* C14: on a nonzero return code the result's errors are the distinct
\* error[E<digits>] tokens of the output: no code twice, at most 5 codes, all
\* of them when the output holds at most 5 distinct codes, and the first 5 in
\* order of first appearance when it holds more.
C14_FirstFiveCodes ==
    Failed =>
        LET found == first_appearances(error_codes(Met.run.output))
        IN  /\ Len(Ret.errors) <= TopErrors
            /\ \A i, j \in DOMAIN Ret.errors :
                  i # j => Ret.errors[i] # Ret.errors[j]
            /\ Range(Ret.errors) \subseteq Range(found)
            /\ Len(found) <= TopErrors => Range(Ret.errors) = Range(found)
            /\ Len(found) > TopErrors => Ret.errors = Head_n(found, TopErrors)

C25_WitnessNoCode ==
    /\ Failed
    /\ has_error_prefix(Met.run.output)
    /\ error_codes(Met.run.output) = <<>>

-----------------------------------------------------------------------------
(* The analysis functions of main, each applied to a list of results *)

\* the most evaluations of a result list that end in a compile failure
MaxFailing == 3

\* an output that reports five codes the other outputs do not hold
OtherErrors ==
    <<"error[E03001]", "error[E03004]", "error[E04010]", "error[E07002]",
      "error[E99999]">>

\* a short output: one code of its own and the most frequent one
FewErrors == <<"error[E02001]", "error[E03003]">>

FailedRun(codes) == Completed(1, [k \in DOMAIN codes |-> Word(codes[k])])

PassedRun(contract_name) ==
    Completed(0, <<SummaryLine("OK", EXPECTED_TESTS[contract_name],
                               EXPECTED_TESTS[contract_name], 0),
                   Word("warning")>>)

\* The evaluation of a pair that met the run; of the orders the set of codes
\* can come in, the inputs take the order of first appearance.
Evaluation(model_name, contract_name, run) ==
    Call(model_name, contract_name,
         Env(TRUE, run, IF run.returncode # 0
                        THEN keys_in_order(error_codes(run.output))
                        ELSE <<>>))

\* result lists as the loop of main builds them, one result per pair
CompleteResults ==
    LET Pair(k) == PairAt(k)
        Choices == {f \in [1..NumPairs -> {"passed", "many", "other", "few"}] :
                        Cardinality({k \in 1..NumPairs : f[k] # "passed"})
                            <= MaxFailing}
        Run(kind, contract_name) ==
            CASE kind = "passed" -> PassedRun(contract_name)
              [] kind = "many" -> FailedRun(ManyErrors)
              [] kind = "other" -> FailedRun(OtherErrors)
              [] kind = "few" -> FailedRun(FewErrors)
    IN  {[k \in 1..NumPairs |->
            Evaluation(Pair(k)[1], Pair(k)[2], Run(f[k], Pair(k)[2]))] :
         f \in Choices}

\* the same lists without the results of the last model
ResultsOfFewerModels ==
    {SelectSeq(rs, LAMBDA r : r.model # MODELS[Len(MODELS)]) :
        rs \in CompleteResults}

InitAnalysis ==
    /\ pc = "given"
    /\ results \in CompleteResults \cup ResultsOfFewerModels
    /\ mi = 1
    /\ ci = 1
    /\ env = <<>>
    /\ result = <<>>
    /\ tool_calls = <<>>
    /\ stats_analysis = <<>>
    /\ error_analysis = <<>>
    /\ document = <<>>
    /\ summary = <<>>
    /\ counts = <<>>
    /\ interval = <<>>
    /\ PipelineIdle

\* perform_statistical_analysis(results): returns, or chi2_contingency raises
CallStatistics ==
    /\ pc = "given"
    /\ IF table_accepted(model_data(results))
       THEN /\ stats_analysis' = <<perform_statistical_analysis(results)>>
            /\ pc' = "analysed"
       ELSE /\ stats_analysis' = stats_analysis
            /\ pc' = "rejected"
    /\ UNCHANGED <<mi, ci, env, result, results, tool_calls, error_analysis,
                   document, summary, counts, interval, pipeline_vars>>

\* analyze_errors(results)
CallAnalyzeErrors ==
    /\ pc = "given"
    /\ error_analysis' = <<analyze_errors(results)>>
    /\ pc' = "counted"
    /\ UNCHANGED <<mi, ci, env, result, results, tool_calls, stats_analysis,
                   document, summary, counts, interval, pipeline_vars>>

\* the summary rows of generate_markdown_table(results, ...): the division by
\* len(model_results) raises ZeroDivisionError for a model without results
CallSummary ==
    /\ pc = "given"
    /\ IF \A k \in DOMAIN MODELS : model_results(results, MODELS[k]) # <<>>
       THEN /\ summary' = <<summary_rows(results)>>
            /\ pc' = "summarised"
       ELSE /\ summary' = summary
            /\ pc' = "divided_by_zero"
    /\ UNCHANGED <<mi, ci, env, result, results, tool_calls, stats_analysis,
                   error_analysis, document, counts, interval, pipeline_vars>>

NextAnalysis == CallStatistics \/ CallAnalyzeErrors \/ CallSummary

SpecAnalysis == InitAnalysis /\ [][NextAnalysis]_vars

-----------------------------------------------------------------------------
(* Properties of the analysis functions (SpecAnalysis) *)

Counted == pc = "counted"

ByType == error_analysis[1].by_type
ByModel == error_analysis[1].by_model

\* the places <<k, j>> at which the error lists of the results hold an error
Places(error) ==
    {<<k, j>> \in (DOMAIN results) \X (1..TopErrors) :
        j \in DOMAIN results[k].errors /\ results[k].errors[j] = error}

PlacesOf(model, error) ==
    {p \in Places(error) : results[p[1]].model = model}

\* C17: analyze_errors counts one occurrence per result and entry of its error
\* list, per model and globally: for every error of by_type the total is the
\* number of its places, it is the sum of the error's per-model counts, each
\* per-model count is the count by_model has for that model and error, and the
\* total is at most the number of results.
C17_ErrorCounts ==
    Counted =>
        \A t \in DOMAIN ByType :
            LET e == ByType[t]
            IN  /\ e.total = Cardinality(Places(e.error))
                /\ e.total = SumSeq([j \in DOMAIN e.models |-> e.models[j].count])
                /\ e.total <= Len(results)
                /\ \A j \in DOMAIN e.models :
                      /\ e.models[j].count =
                            Cardinality(PlacesOf(e.models[j].model, e.error))
                      /\ \E m \in DOMAIN ByModel :
                            /\ ByModel[m].model = e.models[j].model
                            /\ \E c \in DOMAIN ByModel[m].errors :
                                  /\ ByModel[m].errors[c].error = e.error
                                  /\ ByModel[m].errors[c].count = e.models[j].count

\* an error that one model met in two results and another model in one
C17_Witness ==
    /\ Counted
    /\ \E t \in DOMAIN ByType :
          /\ ByType[t].total = 3
          /\ Len(ByType[t].models) = 2

\* the place an error is first met at, going through the results in order
Earlier(p, q) == p[1] < q[1] \/ (p[1] = q[1] /\ p[2] < q[2])

FirstPlace(error) ==
    CHOOSE p \in Places(error) : \A q \in Places(error) : q = p \/ Earlier(p, q)

ErrorsMet == UNION {Range(results[k].errors) : k \in DOMAIN results}

\* a ranks before b: the larger total, or the same total and met earlier
RanksBefore(a, b) ==
    LET total_a == Cardinality(Places(a))
        total_b == Cardinality(Places(b))
    IN  \/ total_a > total_b
        \/ total_a = total_b /\ Earlier(FirstPlace(a), FirstPlace(b))

ZeroTrialModels ==
    {m \in Range(MODELS) : Expected(m) = 0}

Analysed == pc = "analysed"

Pairwise == stats_analysis[1].pairwise

FailedTests(model) == Expected(model) - Passed(model)

C22_AbsoluteDifference ==
    Analysed =>
        \A k \in DOMAIN Pairwise :
            LET m1 == Pairwise[k].model1
                m2 == Pairwise[k].model2
                num == Passed(m1) * Expected(m2) - Passed(m2) * Expected(m1)
            IN  /\ Pairwise[k].diff[1] * Pairwise[k].diff[2] >= 0
                /\ SameFrac(Pairwise[k].diff,
                            Frac(Abs(num) * 100, Expected(m1) * Expected(m2)))

ChiSquare == stats_analysis[1].chi_square

SameCounts == \A m1, m2 \in Range(MODELS) : Passed(m1) = Passed(m2)
                                            /\ Expected(m1) = Expected(m2)

IsMarker(e) == e \notin {<<c>> : c \in ErrorCodes}

ErrorsCounted == error_analysis # <<>>

-----------------------------------------------------------------------------
(* The end of main for the results a benchmark can leave (SpecDocument) *)

\* a run in which the package compiles and holds fewer tests than expected
PartRun == Completed(0, <<SummaryLine("OK", 5, 5, 0)>>)

RunKinds == {"passed", "part", "failed", "timeout", "raised", "missing"}

\* what the evaluation of a pair met
EnvOf(kind, contract_name) ==
    CASE kind = "passed" -> Env(TRUE, PassedRun(contract_name), <<>>)
      [] kind = "part" -> Env(TRUE, PartRun, <<>>)
      [] kind = "failed" ->
            Env(TRUE, FailedRun(FewErrors),
                keys_in_order(error_codes(FailedRun(FewErrors).output)))
      [] kind = "timeout" -> Env(TRUE, TimeoutExpired, <<>>)
      [] kind = "raised" ->
            Env(TRUE, Raised("[Errno 2] No such file or directory: 'sui'"), <<>>)
      [] kind = "missing" -> Env(FALSE, NoRun, <<>>)

\* the evaluations of all pairs: the first MaxFailures of them meet any kind
\* of run, the later ones a full pass
Benchmarks ==
    {[k \in 1..NumPairs |-> IF k <= MaxFailures THEN g[k] ELSE "passed"] :
        g \in [1..MaxFailures -> RunKinds]}

ResultsOf(f) ==
    [k \in 1..NumPairs |->
        Call(PairAt(k)[1], PairAt(k)[2], EnvOf(f[k], PairAt(k)[2]))]

RECURSIVE ToolCallsOf(_, _)
ToolCallsOf(f, k) ==
    IF k = 0 THEN <<>>
    ELSE ToolCallsOf(f, k - 1) \o
         Repeat(PairAt(k), invocations(EnvOf(f[k], PairAt(k)[2])))

\* main after the last iteration of its loops
InitDocument ==
    \E f \in Benchmarks :
        /\ pc = "stats"
        /\ mi = Len(MODELS)
        /\ ci = Len(CONTRACTS)
        /\ env = <<EnvOf(f[NumPairs], CONTRACTS[Len(CONTRACTS)])>>
        /\ results = ResultsOf(f)
        /\ result = <<ResultsOf(f)[NumPairs]>>
        /\ tool_calls = ToolCallsOf(f, NumPairs)
        /\ stats_analysis = <<>>
        /\ error_analysis = <<>>
        /\ document = <<>>
        /\ summary = <<>>
        /\ counts = <<>>
        /\ interval = <<>>
        /\ PipelineIdle

NextDocument == Statistics \/ Errors \/ Save \/ Report

SpecDocument == InitDocument /\ [][NextDocument]_vars

Saved == document # <<>>

ResultKeys ==
    {<<"model">>, <<"contract">>, <<"compiles">>, <<"tests_passed">>,
     <<"tests_total">>, <<"tests_expected">>, <<"warnings">>, <<"errors">>,
     <<"compile_score">>, <<"test_score">>, <<"quality_score">>,
     <<"total_score">>}

-----------------------------------------------------------------------------
(* The Wilson score interval *)

\* z**2 for z = stats.norm.ppf(0.975) = 1.95996...: the fraction 73/19 = 3.8421
\* stands for 3.8415 and keeps the products below within 32 bits.
z_squared == Frac(73, 19)

\* How the floating-point value of center - margin or center + margin lies to
\* the exact one: below, on it, above.  Which one it is depends on the operands
\* and on the build of numpy and scipy.
RoundingErrors == {-1, 0, 1}

Sign(x) == IF x < 0 THEN -1 ELSE IF x > 0 THEN 1 ELSE 0

\* The number times * (center + sign * sqrt(radicand)) / scale, computed with a
\* rounding error of the sign err.
Bound(center, sign, radicand, scale, err) ==
    [center |-> center, sign |-> sign, radicand |-> radicand, scale |-> scale,
     times |-> 1, err |-> err]

\* the int k
Exactly(k) == Bound(k, 0, Frac(0, 1), 1, 0)

\* x * 100
Percent(x) == [x EXCEPT !.times = 100 * x.times]

\* The sign of x - q for a bound x and a fraction q: that of the exact numbers,
\* and where these are equal that of the rounding error of x.
Compare(x, q) ==
    LET t0 == q[1] * x.scale - x.center * x.times * q[2]
        d0 == x.times * q[2]
        g == GCD(Abs(t0), d0)
        t == t0 \div g
        d == d0 \div g
        \* sign * sqrt(radicand) against t / d
        g2 == GCD(d, x.radicand[2])
        root2 == x.radicand[1] * d * (d \div g2)
        t2 == t * t * (x.radicand[2] \div g2)
        exact == IF x.sign = 0 THEN Sign(-t)
                 ELSE IF x.sign = 1
                      THEN IF t < 0 THEN 1 ELSE Sign(root2 - t2)
                      ELSE IF t > 0 THEN -1 ELSE Sign(t2 - root2)
    IN  IF exact # 0 THEN exact ELSE x.err

\* wilson_score_interval(successes, trials) for 0 <= successes <= trials; err
\* holds the rounding errors of center - margin and of center + margin.
wilson_score_interval(successes, trials, err) ==
    IF trials = 0 THEN <<Frac(0, 1), Exactly(0), Exactly(0)>>
    ELSE
        LET a == z_squared[1]
            b == z_squared[2]
            p == Frac(successes, trials)
            \* 1 + z**2 / trials, over trials * b
            denominator == Frac(trials * b + a, trials * b)
            \* (p + z**2 / (2 * trials)) / denominator: the dividend is
            \* (2 * successes * b + a) / (2 * trials * b)
            center == Frac(2 * successes * b + a, 2 * denominator[1])
            \* z * sqrt(p * (1 - p) / trials + z**2 / (4 * trials**2))
            \*   / denominator, as sqrt(radicand) / (2 * (trials * b + a))
            radicand == Frac(a * (4 * successes * (trials - successes) * b
                                   + a * trials),
                             trials)
            below == Bound(center[1], -1, radicand, center[2], err[1])
            above == Bound(center[1], 1, radicand, center[2], err[2])
            \* max(0, center - margin)
            lower == IF Compare(below, Frac(0, 1)) > 0 THEN below ELSE Exactly(0)
            \* min(1, center + margin)
            upper == IF Compare(above, Frac(1, 1)) < 0 THEN above ELSE Exactly(1)
        IN  <<p, lower, upper>>

\* rate, lower, upper = wilson_score_interval(passed, total) and the entry of
\* confidence_intervals made of them
confidence_interval(passed, total, err) ==
    LET w == wilson_score_interval(passed, total, err)
    IN  [rate |-> Frac(w[1][1] * 100, w[1][2]),
         lower |-> Percent(w[2]),
         upper |-> Percent(w[3])]

\* the totals of tests_expected of a model, for the contracts of main's
\* configuration and for its shorter ones
Trials ==
    {SumSeq([k \in 1..c |-> EXPECTED_TESTS[ConfiguredContracts[k]]]) :
        c \in 0..Len(ConfiguredContracts)}

InitWilson ==
    /\ pc = "interval"
    /\ counts \in {<<[successes |-> s, trials |-> n]>> :
                      s \in 0..Max(Trials), n \in Trials}
    /\ counts[1].successes <= counts[1].trials
    /\ interval = <<>>
    /\ PipelineIdle
    /\ mi = 1
    /\ ci = 1
    /\ env = <<>>
    /\ result = <<>>
    /\ results = <<>>
    /\ tool_calls = <<>>
    /\ stats_analysis = <<>>
    /\ error_analysis = <<>>
    /\ document = <<>>
    /\ summary = <<>>

\* the body of the loop over the models that fills confidence_intervals
CallWilson ==
    /\ pc = "interval"
    /\ \E err \in RoundingErrors \X RoundingErrors :
          interval' = <<confidence_interval(counts[1].successes,
                                            counts[1].trials, err)>>
    /\ pc' = "computed"
    /\ UNCHANGED <<mi, ci, env, result, results, tool_calls, stats_analysis,
                   error_analysis, document, summary, counts, pipeline_vars>>

NextWilson == CallWilson

SpecWilson == InitWilson /\ [][NextWilson]_vars

\* C19: for zero trials the interval is (0, 0, 0), and for one trial or more
\* and any successes from 0 to the trials it has
\* 0 <= lower <= rate <= upper <= 100, in percent.
C19_WilsonBounds ==
    pc = "computed" =>
        LET ci95 == interval[1]
        IN  IF counts[1].trials = 0
            THEN /\ ci95.rate[1] = 0
                 /\ Compare(ci95.lower, Frac(0, 1)) = 0
                 /\ Compare(ci95.upper, Frac(0, 1)) = 0
            ELSE /\ Compare(ci95.lower, Frac(0, 1)) >= 0
                 /\ Compare(ci95.lower, ci95.rate) <= 0
                 /\ Compare(ci95.upper, ci95.rate) >= 0
                 /\ Compare(ci95.upper, Frac(100, 1)) <= 0

-----------------------------------------------------------------------------
(* TranslationAPIClient.translate (src/benchmark_pipeline/api_client.py) *)

MaxLines == 2           \* most lines in the body of one streamed response

MAX_RETRIES == 3
REQUEST_TIMEOUT == 120

\* A line of a streamed body: a JSON object with a "response" token and a
\* "done" flag, a line that is not JSON, an empty line, a JSON value that is
\* not an object, or bytes that are not UTF-8.
Line(kind, token, done) == [kind |-> kind, response |-> token, done |-> done]

Lines ==
    {Line("chunk", "<|start|>", FALSE),
     Line("chunk", "module hello::hello {}", TRUE),
     Line("not_json", "", FALSE),
     Line("empty", "", FALSE),
     Line("not_object", "", FALSE),
     Line("not_utf8", "", FALSE)}

\* The body of a response: the lines that arrive and whether reading past
\* them raises (the connection breaks) instead of ending the body.
Body(lines, breaks) == [lines |-> lines, breaks |-> breaks]

\* what session.post met
Responded(status_code, body) ==
    [kind |-> "response", status_code |-> status_code, body |-> body]

TimedOut == [kind |-> "timeout", status_code |-> 0, body |-> Body(<<>>, FALSE)]

RequestFailed == [kind |-> "exception", status_code |-> 0, body |-> Body(<<>>, FALSE)]

StatusCodes == {200, 404, 499, 500, 503}

Outcomes ==
    {Responded(200, Body(lines, breaks)) :
        lines \in SeqsUpTo(Lines, MaxLines), breaks \in BOOLEAN}
    \cup {Responded(status_code, Body(<<>>, breaks)) :
            status_code \in StatusCodes \ {200}, breaks \in BOOLEAN}
    \cup {TimedOut, RequestFailed}

\* The loop over response.iter_lines(): the tokens collected, and whether an
\* exception left the loop.  json.JSONDecodeError is caught and the line
\* skipped; UnicodeDecodeError of line.decode and AttributeError of chunk.get
\* are not.
RECURSIVE iter_lines(_, _, _)
iter_lines(body, k, generated_code) ==
    IF k > Len(body.lines)
    THEN [raised |-> body.breaks, generated_code |-> generated_code]
    ELSE LET line == body.lines[k]
         IN  CASE line.kind = "empty" -> iter_lines(body, k + 1, generated_code)
               [] line.kind = "not_json" -> iter_lines(body, k + 1, generated_code)
               [] line.kind \in {"not_object", "not_utf8"} ->
                    [raised |-> TRUE, generated_code |-> generated_code]
               [] line.kind = "chunk" ->
                    IF line.done
                    THEN [raised |-> FALSE,
                          generated_code |-> Append(generated_code, line.response)]
                    ELSE iter_lines(body, k + 1,
                                    Append(generated_code, line.response))

\* a code fence, three backquotes
Fence == "(fence)"

unwanted_tokens ==
    {"<|endoftext|>", "<|end|>", "<|start|>", Fence \o "move", Fence,
     "<dyad-write", "</dyad-write>"}

\* _clean_generated_code, for code whose unwanted tokens are whole pieces
_clean_generated_code(code) ==
    SelectSeq(code, LAMBDA piece : piece \notin unwanted_tokens)

\* The dicts translate returns.  An absent key is an empty sequence;
\* response_time is empty when it is the measured time end_time - start_time.
Translated(generated_code) ==
    [success |-> TRUE,
     generated_code |-> <<_clean_generated_code(generated_code)>>,
     raw_generated_code |-> <<generated_code>>,
     status_code |-> <<200>>,
     error |-> <<>>,
     response_time |-> <<>>]

StatusError(status_code) ==
    [success |-> FALSE,
     generated_code |-> <<>>,
     raw_generated_code |-> <<>>,
     status_code |-> <<status_code>>,
     error |-> <<"API returned status code ", ToString(status_code), ": ",
                 "response.text">>,
     response_time |-> <<>>]

TimeoutError ==
    [success |-> FALSE,
     generated_code |-> <<>>,
     raw_generated_code |-> <<>>,
     status_code |-> <<>>,
     error |-> <<"Request timed out after ", ToString(REQUEST_TIMEOUT),
                 " seconds">>,
     response_time |-> <<REQUEST_TIMEOUT>>]

UnexpectedError ==
    [success |-> FALSE,
     generated_code |-> <<>>,
     raw_generated_code |-> <<>>,
     status_code |-> <<>>,
     error |-> <<"Unexpected error: ", "str(e)">>,
     response_time |-> <<0>>]

\* retry_count < MAX_RETRIES that allows one retry more
may_retry_once_more(count) == count <= MAX_RETRIES

may_retry(count) == count < MAX_RETRIES

\* status_code >= 500 that takes the client errors too
is_any_error(status_code) == status_code >= 400

is_server_error(status_code) == status_code >= 500

Retry == [retry |-> TRUE, value |-> UnexpectedError]

Return(value) == [retry |-> FALSE, value |-> value]

\* One activation of translate up to its return statement: the value it
\* returns, or that it sleeps and calls itself with retry_count + 1.
translate(met, count) ==
    CASE met.kind = "timeout" ->
            IF may_retry(count) THEN Retry ELSE Return(TimeoutError)
      [] met.kind = "exception" -> Return(UnexpectedError)
      [] met.kind = "response" /\ met.status_code = 200 ->
            LET stream == iter_lines(met.body, 1, <<>>)
            IN  IF stream.raised THEN Return(UnexpectedError)
                ELSE Return(Translated(stream.generated_code))
      [] met.kind = "response" /\ met.status_code # 200 ->
            IF met.body.breaks THEN Return(UnexpectedError)
            ELSE IF is_server_error(met.status_code) /\ may_retry(count)
                 THEN Retry
                 ELSE Return(StatusError(met.status_code))

\* 2 ** retry_count
RECURSIVE Power2(_)
Power2(n) == IF n = 0 THEN 1 ELSE 2 * Power2(n - 1)

\* One request of translate and what follows it in the same activation.
Request(outcomes) ==
    /\ pc = "translate"
    /\ \E met \in outcomes :
          LET step == translate(met, retry_count)
          IN  /\ exchanges' = Append(exchanges, met)
              /\ IF step.retry
                 THEN /\ sleeps' = Append(sleeps, Power2(retry_count))
                      /\ retry_count' = retry_count + 1
                      /\ api_result' = api_result
                      /\ pc' = pc
                 ELSE /\ sleeps' = sleeps
                      /\ retry_count' = retry_count
                      /\ api_result' = <<step.value>>
                      /\ pc' = "translated"
    /\ UNCHANGED <<connected, idx, cases, translated, self_results, saved,
                   benchmark_vars>>

\* a client about to be asked for one translation
InitTranslate ==
    /\ pc = "translate"
    /\ BenchmarkIdle
    /\ PipelineIdle

NextTranslate == Request(Outcomes)

\* A request ends with a response, a timeout after REQUEST_TIMEOUT seconds or
\* an exception, and a sleep ends: the call goes on as long as it can.
SpecTranslate ==
    InitTranslate /\ [][NextTranslate]_vars /\ WF_vars(NextTranslate)

-----------------------------------------------------------------------------
(* Properties of one call of translate (SpecTranslate) *)

TranslateReturned == pc = "translated"

\* the backoff of the first, second and third retry, in seconds
Backoff == <<1, 2, 4>>

IsServerError(met) == met.kind = "response" /\ met.status_code >= 500

IsClientError(met) ==
    met.kind = "response" /\ met.status_code # 200 /\ met.status_code < 500

IsOK(met) == met.kind = "response" /\ met.status_code = 200

\* the request that met it was the last one of the call, which returned
WasLast(k) == k = Len(exchanges) /\ TranslateReturned

\* the first line of a body that ends the reading: the chunk marked done, or a
\* line whose decoding raises; 0 when the body has none
EndOfReading(body) ==
    LET ends == {k \in DOMAIN body.lines :
                    \/ body.lines[k].kind \in {"not_object", "not_utf8"}
                    \/ body.lines[k].kind = "chunk" /\ body.lines[k].done}
    IN  IF ends = {} THEN 0 ELSE CHOOSE k \in ends : \A j \in ends : k <= j

\* the body is read without an exception
ReadsWell(body) ==
    IF EndOfReading(body) = 0 THEN ~body.breaks
    ELSE body.lines[EndOfReading(body)].kind = "chunk"

\* only a server error or a timeout is followed by another request, and only
\* while retry_count < MAX_RETRIES; a client error or another exception ends the
\* call with success false
RetriesOnlyServerErrorsAndTimeouts ==
    /\ \A k \in DOMAIN exchanges :
          ~WasLast(k) =>
              /\ IsServerError(exchanges[k]) \/ exchanges[k].kind = "timeout"
              /\ k - 1 < MAX_RETRIES
    /\ \A k \in DOMAIN exchanges :
          (IsClientError(exchanges[k]) \/ exchanges[k].kind = "exception") =>
              WasLast(k) /\ ~api_result[1].success

\* C28 as stated: translate retries only server errors and timeouts, while
\* retry_count < MAX_RETRIES; a client error or a non-timeout exception returns
\* success false with no further request; a 200 response returns success true
\* without any retry.
C28_RetryClassification ==
    /\ RetriesOnlyServerErrorsAndTimeouts
    /\ \A k \in DOMAIN exchanges :
          IsOK(exchanges[k]) => WasLast(k) /\ api_result[1].success

\* C28, amended: as above, but a 200 response returns success true only when
\* its body is read without an exception, and success false when it is not.
C28_RetryClassificationOfReadBodies ==
    /\ RetriesOnlyServerErrorsAndTimeouts
    /\ \A k \in DOMAIN exchanges :
          IsOK(exchanges[k]) =>
              /\ WasLast(k)
              /\ api_result[1].success = ReadsWell(exchanges[k].body)

\* a server error was retried, the retry met a client error and the call ended
C28_Witness ==
    /\ TranslateReturned
    /\ Len(exchanges) = 2
    /\ IsServerError(exchanges[1])
    /\ IsClientError(exchanges[2])
    /\ sleeps = <<1>>
    /\ ~api_result[1].success

-----------------------------------------------------------------------------
(* BenchmarkRunner (src/benchmark_pipeline/benchmark_runner.py) *)

NumCases == 2           \* how many of the configured test cases are run

TEST_CASES == SubSeq(ConfiguredContracts, 1, NumCases)

\* What the GET of list_models meets: the list of models with or without the
\* configured one, a status other than 200, or an exception (of the request or
\* of response.json()).
Listed(found) == [kind |-> "listed", found |-> found]

TagOutcomes ==
    {Listed(TRUE), Listed(FALSE), [kind |-> "status", found |-> FALSE],
     [kind |-> "exception", found |-> FALSE]}

\* list_models(retry_count) when its requests meet met[1], met[2], ...
RECURSIVE list_models(_, _)
list_models(met, count) ==
    IF met[count + 1].kind = "listed" THEN met[count + 1].found
    ELSE IF count < MAX_RETRIES THEN list_models(met, count + 1)
    ELSE FALSE

\* test_connection(): list_models catches what it raises
test_connection(met) == list_models(met, 0)

\* `if not self.api_client.test_connection()`
connection_failed(connection) == ~connection

\* What MoveCodeEvaluator.evaluate returns, as far as the runner reads it.
Evaluations == {[passed |-> TRUE], [passed |-> FALSE]}

\* A BenchmarkResult; None is the empty sequence.  The timestamp is the time
\* of the call and is left out.
BenchmarkResult(test_case, success, error, generated_code, evaluation, response_time) ==
    [test_case |-> test_case,
     success |-> success,
     error |-> error,
     generated_code |-> generated_code,
     evaluation |-> evaluation,
     response_time |-> response_time]

\* run_single_benchmark(case) from the return of translate on; evaluation is
\* what the evaluator returns if it is called
run_single_benchmark(name, api, evaluation) ==
    IF ~api.success
    THEN BenchmarkResult(name, FALSE,
                         IF api.error # <<>> THEN <<api.error>>
                         ELSE <<<<"Unknown error">>>>,
                         <<>>, <<>>, api.response_time)
    ELSE BenchmarkResult(name, TRUE, <<>>, api.generated_code, <<evaluation>>,
                         api.response_time)

\* self.results.append(result) that keeps only the translated cases
append_translated(rs, r) == IF r.success THEN Append(rs, r) ELSE rs

\* self.results.append(result)
append_result(rs, r) == Append(rs, r)

\* the next position of the loop over test_cases
next_case(i) == IF i < Len(TEST_CASES) THEN "load" ELSE "finished"

\* run_all_benchmarks up to the loop: the connection test
TestConnection ==
    /\ pc = "run_all"
    /\ \E met \in [1..MAX_RETRIES + 1 -> TagOutcomes] :
          /\ connected' = <<test_connection(met)>>
          /\ pc' = IF connection_failed(test_connection(met))
                   THEN "finished" ELSE "load"
    /\ UNCHANGED <<retry_count, exchanges, sleeps, api_result, idx, cases,
                   translated, self_results, saved, benchmark_vars>>

\* case = self.load_test_case(case_name); a case that loaded is handed to
\* run_single_benchmark, which calls translate
LoadTestCase ==
    /\ pc = "load"
    /\ \E loads \in BOOLEAN :
          IF loads
          THEN /\ cases' = Append(cases, <<TEST_CASES[idx]>>)
               /\ translated' = Append(translated, TEST_CASES[idx])
               /\ retry_count' = 0
               /\ exchanges' = <<>>
               /\ sleeps' = <<>>
               /\ api_result' = <<>>
               /\ idx' = idx
               /\ pc' = "translate"
          ELSE /\ cases' = Append(cases, <<>>)
               /\ idx' = IF idx < Len(TEST_CASES) THEN idx + 1 ELSE idx
               /\ pc' = next_case(idx)
               /\ UNCHANGED <<translated, retry_count, exchanges, sleeps,
                              api_result>>
    /\ UNCHANGED <<connected, self_results, saved, benchmark_vars>>

\* the responses the endpoint gives a benchmark run
RunnerOutcomes ==
    {Responded(200, Body(<<Line("chunk", "module hello::hello {}", TRUE)>>, FALSE)),
     Responded(200, Body(<<Line("not_object", "", FALSE)>>, FALSE)),
     Responded(404, Body(<<>>, FALSE)),
     Responded(503, Body(<<>>, FALSE)),
     TimedOut}

\* the rest of run_single_benchmark and self.results.append(result)
RecordResult ==
    /\ pc = "translated"
    /\ \E evaluation \in Evaluations :
          self_results' =
              append_result(self_results,
                            run_single_benchmark(TEST_CASES[idx], api_result[1],
                                                 evaluation))
    /\ idx' = IF idx < Len(TEST_CASES) THEN idx + 1 ELSE idx
    /\ pc' = next_case(idx)
    /\ UNCHANGED <<retry_count, exchanges, sleeps, api_result, connected, cases,
                   translated, saved, benchmark_vars>>

\* sum(1 for r in self.results if r.evaluation and r.evaluation.passed)
passed_count(rs) ==
    Len(SelectSeq(rs, LAMBDA r : r.evaluation # <<>> /\ r.evaluation[1].passed))

\* the count of failed that looks only at the results with an evaluation
failed_count_of_evaluated(rs) ==
    Len(SelectSeq(rs, LAMBDA r : r.evaluation # <<>> /\ ~r.evaluation[1].passed))

\* sum(1 for r in self.results if not r.evaluation or not r.evaluation.passed)
failed_count(rs) ==
    Len(SelectSeq(rs, LAMBDA r : r.evaluation = <<>> \/ ~r.evaluation[1].passed))

\* an entry of serializable_results
result_entry(r) ==
    [test_case |-> r.test_case,
     success |-> r.success,
     error |-> r.error,
     response_time |-> r.response_time,
     evaluation |-> r.evaluation]

\* save_results(): the object handed to json.dump
SaveResults ==
    /\ pc = "finished"
    /\ saved' = <<[total_tests |-> Len(self_results),
                   passed |-> passed_count(self_results),
                   failed |-> failed_count(self_results),
                   results |-> [k \in DOMAIN self_results |->
                                   result_entry(self_results[k])]]>>
    /\ pc' = "saved"
    /\ UNCHANGED <<retry_count, exchanges, sleeps, api_result, connected, idx,
                   cases, translated, self_results, benchmark_vars>>

\* main: a new runner, about to call run_all_benchmarks
InitRunner ==
    /\ pc = "run_all"
    /\ BenchmarkIdle
    /\ PipelineIdle

NextRunner ==
    \/ TestConnection
    \/ LoadTestCase
    \/ Request(RunnerOutcomes)
    \/ RecordResult
    \/ SaveResults

SpecRunner == InitRunner /\ [][NextRunner]_vars

-----------------------------------------------------------------------------
(* Properties of a run of the benchmark pipeline (SpecRunner) *)

RunFinished == pc \in {"finished", "saved"}

\* the names of the cases that loaded so far, in the order they were loaded
LoadedCases ==
    LET loaded == SelectSeq(cases, LAMBDA c : c # <<>>)
    IN  [k \in DOMAIN loaded |-> loaded[k][1]]

\* the names of the cases self.results holds, in order
RecordedCases == [k \in DOMAIN self_results |-> self_results[k].test_case]

\* the position of a case in TEST_CASES
IndexOf(name) == CHOOSE k \in DOMAIN TEST_CASES : TEST_CASES[k] = name

\* the sequence of names follows the order of TEST_CASES, with no name twice
InListOrder(names) ==
    \A j, k \in DOMAIN names : j < k => IndexOf(names[j]) < IndexOf(names[k])

C30_PassedPlusFailed ==
    pc = "saved" =>
        LET doc == saved[1]
            WithoutEvaluation ==
                {k \in DOMAIN self_results : self_results[k].evaluation = <<>>}
            Passing ==
                {k \in DOMAIN self_results :
                    /\ self_results[k].evaluation # <<>>
                    /\ self_results[k].evaluation[1].passed}
        IN  /\ doc.passed + doc.failed = doc.total_tests
            /\ doc.total_tests = Len(self_results)
            /\ Len(doc.results) = Len(self_results)
            /\ doc.passed = Cardinality(Passing)
            /\ doc.failed >= Cardinality(WithoutEvaluation)
            /\ doc.failed = Cardinality(DOMAIN self_results \ Passing)

\* a saved document of one passed result and one failed translation
C30_Witness ==
    /\ pc = "saved"
    /\ Len(self_results) = 2
    /\ saved[1].passed = 1
    /\ saved[1].failed = 1
    /\ \E k \in DOMAIN self_results : self_results[k].evaluation = <<>>

====
